---- MODULE Spec2Model ----
(***************************************************************************)
(* A state-machine model of bench/micro_load.c: the access benchmark       *)
(* driver.  One run of main() is                                           *)
(*   parse (5-6) -> malloc (7) -> init loop (8) -> sink/i declared (9-10)  *)
(*   -> access loop (10-12) -> printf (13) -> return 0 (14).               *)
(*                                                                         *)
(* long is 64 bits and int is 32 bits (LP64).  Every long of the model     *)
(* stays far below 2^31, so longs are plain integers; the int accumulator  *)
(* keeps its 32-bit width.  The buffer is kept as its capacity and the     *)
(* number of cells the init loop has written: the only stores to it are    *)
(* A[i]=i of line 8, so cell k, once written, holds ACell(k).              *)
(*                                                                         *)
(* The init loop of line 8 is one step: it is sequential, nothing reads    *)
(* the buffer while it runs, and its first store decides whether it        *)
(* faults.  The access loop of lines 10-12 is one step per iteration.      *)
(*                                                                         *)
(* Behaviour the C standard leaves undefined and that no build gives a     *)
(* single outcome (a store through a null pointer, a store or load outside *)
(* the block, i % 0) ends the run in a ub_* state: from there anything may *)
(* happen and the model says nothing more.  The int addition of line 11    *)
(* is a load, a 32-bit add and a store on the volatile accumulator: its    *)
(* result on overflow is the two's-complement sum.                         *)
(***************************************************************************)
EXTENDS Integers, Sequences, FiniteSets

VARIABLES pc, argc, argv, N, size, A, i, idx, sink, out, status, run, out1

vars == <<pc, argc, argv, N, size, A, i, idx, sink, out, status, run, out1>>

(* ------------------------------ bounds -------------------------------- *)

\* Small access counts range over -1..MaxN: 7 covers two full passes and a
\* partial one over a buffer of 3.
MaxN == 7

\* Small working-set sizes range over -1..MaxS.
MaxS == 3

\* The large arguments are BigArg and BigArg + 1: the least access counts
\* whose sum 0 + 1 + ... + (N-1) no longer fits the 32-bit accumulator.
BigArg == 65537

(* ------------------------- program constants -------------------------- *)

DefaultN == 1000000

DefaultS == 10000000

SizeofInt == 4

INT_MAX == 2147483647

INT_MIN == -INT_MAX - 1

SinkInit == 0

ExitOk == 0

\* status while main has not returned
Running == 0 - 1

(* ------------------------------- text --------------------------------- *)

DigitChars == <<"0", "1", "2", "3", "4", "5", "6", "7", "8", "9">>

IsDigit(c) == \E d \in 1..10 : DigitChars[d] = c

DigitVal(c) == (CHOOSE d \in 1..10 : DigitChars[d] = c) - 1

RECURSIVE SkipSpace(_)
SkipSpace(s) ==
    IF s # <<>> /\ Head(s) = " " THEN SkipSpace(Tail(s)) ELSE s

RECURSIVE AtolDigits(_, _)
AtolDigits(s, acc) ==
    IF s # <<>> /\ IsDigit(Head(s))
    THEN AtolDigits(Tail(s), acc * 10 + DigitVal(Head(s)))
    ELSE acc

\* atol: optional blanks, an optional sign, then the longest run of digits;
\* text with no digits there gives 0.
Atol(s) ==
    LET t == SkipSpace(s)
    IN  IF t # <<>> /\ Head(t) = "-" THEN 0 - AtolDigits(Tail(t), 0)
        ELSE IF t # <<>> /\ Head(t) = "+" THEN AtolDigits(Tail(t), 0)
        ELSE AtolDigits(t, 0)

RECURSIVE DecDigits(_)
DecDigits(n) ==
    IF n < 10 THEN <<DigitChars[n + 1]>>
    ELSE Append(DecDigits(n \div 10), DigitChars[(n % 10) + 1])

\* the digits of |v| for v <= 0, computed without negating v
RECURSIVE NegDigits(_)
NegDigits(v) ==
    LET q == (v + 9) \div 10
        d == q * 10 - v
    IN  IF q = 0 THEN <<DigitChars[d + 1]>>
        ELSE Append(NegDigits(q), DigitChars[d + 1])

\* printf("%d", v)
FormatD(v) == IF v >= 0 THEN DecDigits(v) ELSE <<"-">> \o NegDigits(v)

\* printf("%d\n", v)
PrintfLine(v) == FormatD(v) \o <<"\n">>

(* ------------------------------ inputs -------------------------------- *)

SmallN == (0 - 1)..MaxN

SmallS == (0 - 1)..MaxS

BigArgs == {BigArg, BigArg + 1}

\* texts that are not plain decimal numbers: no digits at all, a sign after
\* a blank, digits followed by something else
OddNTexts == {<<"x">>, <<" ", "+", "2">>, <<"3", "x">>}

OddSTexts == {<<"x">>, <<" ", "2", "x">>}

NTexts == {FormatD(n) : n \in SmallN \cup BigArgs} \cup OddNTexts

STexts == {FormatD(n) : n \in SmallS \cup {BigArg, DefaultS}} \cup OddSTexts

\* argv[1..argc-1]; argv[0], the program name, is not read
ArgVectors ==
    {<<>>} \cup {<<n>> : n \in NTexts} \cup {<<n, s>> : n \in NTexts, s \in STexts}

(* --------------------------- the C operators -------------------------- *)

\* faulty variant: the addition saturates instead of wrapping
AddIntSaturating(a, b) ==
    IF b > 0 /\ a > INT_MAX - b THEN INT_MAX
    ELSE IF b < 0 /\ a < INT_MIN - b THEN INT_MIN
    ELSE a + b

\* int + int on the 32-bit accumulator, two's complement
AddInt(a, b) ==
    IF b > 0 /\ a > INT_MAX - b THEN (a - INT_MAX - 1) + (b - INT_MAX - 1)
    ELSE IF b < 0 /\ a < INT_MIN - b THEN (a + INT_MAX + 1) + (b + INT_MAX + 1)
    ELSE a + b

Abs(x) == IF x < 0 THEN 0 - x ELSE x

\* faulty variant: the divisor is one too large (i % (size + 1))
CModOffByOne(a, b) == a % (Abs(b) + 1)

\* faulty variant: the index stops at the last cell instead of wrapping around
CModClamped(a, b) == IF a < Abs(b) THEN a ELSE Abs(b) - 1

\* a % b of C for a >= 0, b # 0: the remainder of division truncated to zero
CMod(a, b) == a % Abs(b)

\* faulty variant: the init loop stores i+1
ACellOffByOne(k) == k + 1

\* the value the init loop stores in cell k: A[i]=i, a long converted to int
ACell(k) == k

\* faulty variant: i<=N
LoopCondInclusive(ii, n) == ii <= n

\* line 10: i<N
LoopCond(ii, n) == ii < n

(* ------------------------------ malloc -------------------------------- *)

Unset == [base |-> "unset", len |-> 0, init |-> 0]

NullPtr == [base |-> "null", len |-> 0, init |-> 0]

\* faulty variant: the element size is forgotten (malloc(size))
MallocBytesNoSizeof(sz) == sz

\* size * sizeof(int)
MallocBytes(sz) == sz * SizeofInt

\* A negative size converts to a size_t of at least 2^63 bytes, which no
\* malloc grants; any other request is granted or refused (malloc(0) may
\* return either).  len is the capacity in ints, init the cells written.
MallocResults(sz) ==
    IF sz < 0 THEN {NullPtr}
    ELSE {NullPtr, [base |-> "heap", len |-> MallocBytes(sz) \div SizeofInt, init |-> 0]}

(* ------------------------------ actions ------------------------------- *)

Init ==
    /\ pc = "parse"
    /\ argv \in ArgVectors
    /\ argc = Len(argv) + 1
    /\ N = 0
    /\ size = 0
    /\ A = Unset
    /\ i = 0
    /\ idx = 0
    /\ sink = 0
    /\ out = <<>>
    /\ status = Running
    /\ run = 1
    /\ out1 = <<>>

\* line 5
ParseN(c, v) == IF c > 1 THEN Atol(v[1]) ELSE DefaultN

\* faulty variant: line 6 copied from line 5 with only the default changed
ParseSFromFirst(c, v) == IF c > 1 THEN Atol(v[1]) ELSE DefaultS

\* faulty variant: a size of 0 is taken to mean "not given"
ParseSZeroIsDefault(c, v) ==
    IF c > 2 /\ Atol(v[2]) # 0 THEN Atol(v[2]) ELSE DefaultS

\* line 6
ParseS(c, v) == IF c > 2 THEN Atol(v[2]) ELSE DefaultS

\* lines 5-6
Parse ==
    /\ pc = "parse"
    /\ N' = ParseN(argc, argv)
    /\ size' = ParseS(argc, argv)
    /\ pc' = "alloc"
    /\ UNCHANGED <<argc, argv, A, i, idx, sink, out, status, run, out1>>

\* line 7
Alloc ==
    /\ pc = "alloc"
    /\ A' \in MallocResults(size)
    /\ pc' = "init"
    /\ UNCHANGED <<argc, argv, N, size, i, idx, sink, out, status, run, out1>>

\* line 8, the whole loop: no iteration when size <= 0; otherwise the first
\* store goes through A whatever A is, and the stores run up to cell size-1.
InitBuffer ==
    /\ pc = "init"
    /\ IF size <= 0
       THEN pc' = "decl" /\ A' = A
       ELSE IF A.base # "heap"
       THEN pc' = "ub_nullwrite" /\ A' = A
       ELSE IF size > A.len
       THEN pc' = "ub_oobwrite" /\ A' = [A EXCEPT !.init = A.len]
       ELSE pc' = "decl" /\ A' = [A EXCEPT !.init = size]
    /\ UNCHANGED <<argc, argv, N, size, i, idx, sink, out, status, run, out1>>

\* faulty variant: sink is declared without its initialiser
DeclSinkNoInit ==
    /\ pc = "decl"
    /\ i' = 0
    /\ pc' = "loop"
    /\ UNCHANGED <<argc, argv, N, size, A, idx, sink, out, status, run, out1>>

\* line 9 and the initialiser of line 10
DeclSink ==
    /\ pc = "decl"
    /\ sink' = SinkInit
    /\ i' = 0
    /\ pc' = "loop"
    /\ UNCHANGED <<argc, argv, N, size, A, idx, out, status, run, out1>>

\* lines 10-12, one iteration: i<N holds, sink += A[i % size], i++
LoopBody ==
    /\ pc = "loop"
    /\ LoopCond(i, N)
    /\ IF size = 0
       THEN pc' = "ub_divzero" /\ UNCHANGED <<i, idx, sink>>
       ELSE LET k == CMod(i, size)
            IN  /\ idx' = k
                /\ IF A.base = "heap" /\ k >= 0 /\ k < A.len /\ k < A.init
                   THEN sink' = AddInt(sink, ACell(k)) /\ i' = i + 1 /\ pc' = pc
                   ELSE pc' = "ub_badread" /\ UNCHANGED <<i, sink>>
    /\ UNCHANGED <<argc, argv, N, size, A, out, status, run, out1>>

\* line 10: i<N fails, the loop is left
LoopExit ==
    /\ pc = "loop"
    /\ ~LoopCond(i, N)
    /\ pc' = "emit"
    /\ UNCHANGED <<argc, argv, N, size, A, i, idx, sink, out, status, run, out1>>

\* line 13
Emit ==
    /\ pc = "emit"
    /\ out' = out \o PrintfLine(sink)
    /\ pc' = "exit"
    /\ UNCHANGED <<argc, argv, N, size, A, i, idx, sink, status, run, out1>>

\* line 14
Exit ==
    /\ pc = "exit"
    /\ status' = ExitOk
    /\ pc' = "done"
    /\ UNCHANGED <<argc, argv, N, size, A, i, idx, sink, out, run, out1>>

Next ==
    \/ Parse
    \/ Alloc
    \/ InitBuffer
    \/ DeclSink
    \/ LoopBody
    \/ LoopExit
    \/ Emit
    \/ Exit

Spec == Init /\ [][Next]_vars

(* --------------------------- the driver run twice --------------------- *)

\* The command is invoked a second time, after the first run has returned,
\* with any argument vector that parses to the same (N, size).  The first
\* run's output is kept in out1.  A new process's argv, stdout and heap are
\* fresh; the storage of i, idx and sink is whatever it happens to hold
\* until lines 9-11 write it.
Rerun ==
    /\ pc = "done"
    /\ run = 1
    /\ run' = 2
    /\ out1' = out
    /\ argv' \in {v \in ArgVectors :
                    /\ ParseN(Len(v) + 1, v) = N
                    /\ ParseS(Len(v) + 1, v) = size}
    /\ argc' = Len(argv') + 1
    /\ pc' = "parse"
    /\ N' = 0
    /\ size' = 0
    /\ A' = Unset
    /\ out' = <<>>
    /\ status' = Running
    /\ UNCHANGED <<i, idx, sink>>

NextTwice ==
    \/ Next
    \/ Rerun

SpecTwice == Init /\ [][NextTwice]_vars

(* ------------------------ vocabulary of the claims -------------------- *)

Parsed == pc # "parse"

UBStates == {"ub_nullwrite", "ub_oobwrite", "ub_divzero", "ub_badread"}

\* the access loop has been entered
InLoopOrAfter == pc \in {"loop", "emit", "exit", "done", "ub_divzero", "ub_badread"}

\* number of newline-terminated lines written to standard output
LineCount(o) == Cardinality({j \in 1..Len(o) : o[j] = "\n"})

\* Exact arithmetic on naturals.  TLC's integers end at 2^31 - 1, which is
\* INT_MAX: a product or a sum is formed only after MulFits or AddFits says
\* it is at most INT_MAX.  A natural above INT_MAX is no value that "%d" of
\* an int can print.
MulFits(a, b) == a = 0 \/ b <= INT_MAX \div a

AddFits(a, b) == a <= INT_MAX - b

\* n*(n-1)/2 = TriA(n) * TriB(n), the even factor halved first
TriA(n) == IF n % 2 = 0 THEN n \div 2 ELSE n

TriB(n) == IF n % 2 = 0 THEN n - 1 ELSE (n - 1) \div 2

\* 0 + 1 + ... + (n-1) is at most INT_MAX
TriFits(n) == MulFits(TriA(n), TriB(n))

\* 0 + 1 + ... + (n-1), where TriFits(n)
Tri(n) == TriA(n) * TriB(n)

\* floor(n/s) * (s*(s-1)/2) + (0 + ... + ((n mod s) - 1)) is at most INT_MAX
CycleSumFits(n, s) ==
    /\ TriFits(s)
    /\ MulFits(n \div s, Tri(s))
    /\ TriFits(n % s)
    /\ AddFits((n \div s) * Tri(s), Tri(n % s))

\* that value, where CycleSumFits(n, s)
CycleSum(n, s) == (n \div s) * Tri(s) + Tri(n % s)

\* Arithmetic modulo 2^32 on representatives in [-2^31, 2^31).
\* WrapAdd(a, b) is the representative of a + b.
WrapAdd(a, b) ==
    LET room == INT_MAX - a
    IN  IF b > 0 /\ a > 0 /\ b > room THEN (a + INT_MIN) + (b + INT_MIN)
        ELSE IF b < 0 /\ a < 0 /\ b < INT_MIN - a THEN (a - INT_MIN) + (b - INT_MIN)
        ELSE a + b

\* the representative of a * b for a natural b, by binary expansion of b
RECURSIVE WrapMul(_, _)
WrapMul(a, b) ==
    IF b = 0 THEN 0
    ELSE LET h == WrapMul(a, b \div 2)
             d == WrapAdd(h, h)
         IN  IF b % 2 = 1 THEN WrapAdd(d, a) ELSE d

\* the representative of 0 + 1 + ... + (n-1)
WrapTri(n) == IF n = 0 THEN 0 ELSE WrapMul(TriA(n), TriB(n))

\* the sum of (j mod s) over j in [0, n), by adding: for small n only
RECURSIVE DirectSum(_, _)
DirectSum(n, s) == IF n <= 0 THEN 0 ELSE DirectSum(n - 1, s) + ((n - 1) % s)

\* The sum of (j mod s) over j in [0, n) reduced modulo 2^32 into
\* [-2^31, 2^31).  The sum is floor(n/s) full passes of s*(s-1)/2 plus the
\* first n mod s indices; reduction modulo 2^32 commutes with + and *.
WrappedSum(n, s) ==
    WrapAdd(WrapMul(WrapTri(s), n \div s), WrapTri(n % s))

(* ------------------------------- claims ------------------------------- *)

\* C1: in a run with S >= 1 and N >= 0, every index the access loop has
\* used to read the buffer is i mod S of the iteration and lies in [0, S),
\* inside the block, and no read ever fell outside it.
C1_IndexInRange ==
    (Parsed /\ size >= 1 /\ N >= 0 /\ InLoopOrAfter /\ (i > 0 \/ pc = "ub_badread"))
        => /\ 0 <= idx
           /\ idx < size
           /\ idx < A.len
           /\ pc # "ub_badread"
           /\ idx = (i - 1) % size

\* C1 witness: with S = 3 the fourth read has wrapped around to index 0.
C1_Witness == pc = "loop" /\ size = 3 /\ i = 4 /\ idx = 0 /\ A.len = 3

\* C2 as stated: for S >= 1 and 0 <= N <= S the printed value is
\* N*(N-1)/2, the unbounded closed form.
C2_Original ==
    (pc = "done" /\ size >= 1 /\ 0 <= N /\ N <= size)
        => (TriFits(N) /\ out = PrintfLine(Tri(N)))

\* C2 amended: for S >= 1 and 0 <= N <= S with N*(N-1)/2 <= 2^31 - 1 the
\* printed value is N*(N-1)/2.
C2_ClosedFormWhenItFits ==
    (pc = "done" /\ size >= 1 /\ 0 <= N /\ N <= size /\ TriFits(N))
        => out = PrintfLine(Tri(N))

\* C2 witness: N = 3 <= S = 3 has printed 0 + 1 + 2 = 3.
C2_Witness == pc = "done" /\ N = 3 /\ size = 3 /\ out = <<"3", "\n">>

\* C3 as stated: for S >= 1 and N > S the printed value is
\* floor(N/S) * (S*(S-1)/2) + (0 + ... + ((N mod S) - 1)), unbounded.
C3_Original ==
    (pc = "done" /\ size >= 1 /\ N > size)
        => (CycleSumFits(N, size) /\ out = PrintfLine(CycleSum(N, size)))

\* C3 amended: for S >= 1 and N > S, when that value is at most 2^31 - 1
\* it is the printed value.
C3_CycleSumWhenItFits ==
    (pc = "done" /\ size >= 1 /\ N > size /\ CycleSumFits(N, size))
        => out = PrintfLine(CycleSum(N, size))

\* C3 witness: N = 7, S = 3 has printed 0+1+2+0+1+2+0 = 6.
C3_Witness == pc = "done" /\ N = 7 /\ size = 3 /\ out = <<"6", "\n">>

\* C4: with N = 0, whatever S is, the access loop makes no iteration: the
\* accumulator keeps its initial 0, no index is computed, no modulo by S
\* and no buffer read happens, and what is printed is 0.
C4_ZeroAccesses ==
    (Parsed /\ N = 0)
        => /\ pc \notin {"ub_divzero", "ub_badread"}
           /\ i = 0
           /\ idx = 0
           /\ sink = 0
           /\ pc \in {"exit", "done"} => out = <<"0", "\n">>

\* C4 witness: N = 0 with S = 0 has printed 0 and returned.
C4_Witness == pc = "done" /\ N = 0 /\ size = 0 /\ argc = 3 /\ out = <<"0", "\n">>

\* C5: the driver run a second time with arguments that parse to the same
\* (N, S), S >= 1 and N >= 0, prints what the first run printed.
C5_SameOutputTwice ==
    (run = 2 /\ pc = "done" /\ size >= 1 /\ N >= 0) => out = out1

\* C5 witness: a second run given N as "3x" and S as " 2x", that is N = 3
\* and S = 2, has printed 0 + 1 + 0 = 1 as the first run did.
C5_Witness ==
    /\ run = 2
    /\ pc = "done"
    /\ argv = <<<<"3", "x">>, <<" ", "2", "x">>>>
    /\ N = 3
    /\ size = 2
    /\ out = <<"1", "\n">>
    /\ out1 = out

\* C6: after parsing, no argument gives N = 1,000,000 and S = 10,000,000;
\* one argument gives N its value and leaves S = 10,000,000; two arguments
\* give N the first and S the second; nothing later changes N or S; and a
\* run given N alone prints what N and S = 10,000,000 determine.
C6_Defaulting ==
    Parsed =>
        /\ argc = 1 => (N = 1000000 /\ size = 10000000)
        /\ argc = 2 => (N = Atol(argv[1]) /\ size = 10000000)
        /\ argc = 3 => (N = Atol(argv[1]) /\ size = Atol(argv[2]))
        /\ (pc = "done" /\ argc = 2 /\ N >= 0)
              => out = PrintfLine(WrappedSum(Atol(argv[1]), 10000000))

\* C6 witness: the single argument "3" has set N = 3, S is 10,000,000, and
\* the run has printed 0 + 1 + 2.
C6_Witness ==
    /\ pc = "done"
    /\ argc = 2
    /\ argv = <<<<"3">>>>
    /\ N = 3
    /\ size = 10000000
    /\ out = <<"3", "\n">>

\* C7 as stated: a run with N >= 0 and S >= 1 ends nowhere but at the
\* return of main, with exit status 0 and exactly one line written, and
\* nothing is written before the access loop is over.
C7_AlwaysTerminatesOk ==
    (Parsed /\ N >= 0 /\ size >= 1)
        => /\ (pc = "done" \/ ENABLED Next)
           /\ pc = "done" => (status = ExitOk /\ LineCount(out) = 1 /\ out = PrintfLine(sink))
           /\ out # <<>> => (pc \in {"exit", "done"} /\ ~LoopCond(i, N))

\* C8: with S = 0 given as the second argument and N >= 1, nothing rejects
\* S: size is 0 when the loop is reached, the run is still before its first
\* read with nothing written and no exit status, and its only step from the
\* loop is the first iteration's i % 0.
C8_ZeroSizeReachesModulo ==
    (Parsed /\ argc = 3 /\ Atol(argv[2]) = 0 /\ Atol(argv[1]) >= 1)
        => /\ size = 0
           /\ pc \in {"alloc", "init", "decl", "loop", "ub_divzero"}
           /\ pc = "loop" => (ENABLED LoopBody /\ ~ENABLED LoopExit)
           /\ pc \in {"loop", "ub_divzero"} => i = 0
           /\ out = <<>>
           /\ status = Running

\* C8 witness: S = 0, N = 1: the first iteration has evaluated 0 % 0.
C8_Witness == pc = "ub_divzero" /\ size = 0 /\ N = 1 /\ i = 0 /\ A.base = "heap"

C10_WrappedSum ==
    /\ INT_MIN <= sink
    /\ sink <= INT_MAX
    /\ (pc = "done" /\ N >= 0 /\ size >= 1) =>
          /\ out = PrintfLine(sink)
          /\ out = PrintfLine(WrappedSum(N, size))
          /\ N <= MaxN => out = PrintfLine(DirectSum(N, size))
          /\ (N = 1000000 /\ size = 10000000) =>
                /\ ~TriFits(N)
                /\ out = <<"1", "7", "8", "3", "2", "9", "3", "6", "6", "4", "\n">>

\* C10 witness: N = 65537 <= S: the sum 2147516416 is above 2^31 - 1 and
\* the printed value is 2147516416 - 2^32 = -2147450880.
C10_Witness ==
    /\ pc = "done"
    /\ N = 65537
    /\ size >= N
    /\ ~TriFits(N)
    /\ sink = INT_MIN + 32768
    /\ out = <<"-", "2", "1", "4", "7", "4", "5", "0", "8", "8", "0", "\n">>

====
